---- MODULE Spec2Model ----
(***************************************************************************)
(* A model of the chat server of src/main.c: the buffer pool, the chained  *)
(* output queues, the input line framer, the history, the protocol handler *)
(* the connection table and the poll loop of main.                         *)
(*                                                                         *)
(* A C string is a sequence of bytes without the terminating NUL; a byte   *)
(* is a one-character string, and CR, LF and NUL stand for '\r', '\n' and  *)
(* '\0'.  The program's state is carried through the functions of main.c   *)
(* as one record (Prog below, with one field per global of main.c); each   *)
(* function of main.c is an operator on that record, and an action applies *)
(* a whole handler to the variables.                                       *)
(***************************************************************************)
EXTENDS Integers, Sequences, FiniteSets, TLC

VARIABLES
  connections,        \* main.c:78   [sockets, data, length]
  history,            \* main.c:90   [messages, length]
  free_buffers,       \* main.c:67   block -> [data, next]; used = Len(data)
  first_free_buffer,  \* main.c:68
  clock,              \* the last reading of CLOCK_REALTIME, in ticks
  os,                 \* the kernel's side: open descriptors, bytes accepted per socket
  status,             \* "running", "exited" (die), "aborted" (assert), "undefined"
  pc, i, n,           \* main's position in its loop (main.c:405-424) and its locals
  log,                \* history variable: what the last handler did, and the bytes enqueued
  env,                \* what the environment has done so far (bounds the exploration)
  wire_in,            \* bytes the client has sent that the server has not read yet
  twin                \* the reference run of the framing law: each packet delivered whole

vars == <<connections, history, free_buffers, first_free_buffer, clock, os,
          status, pc, i, n, log, env, wire_in, twin>>

----------------------------------------------------------------------------
(* Program constants, main.c:43-50.                                        *)

TIMESTAMP_LENGTH == 10
BUFFER_POOL_SIZE == 16
MAX_CONNECTIONS == 1024
MAX_MESSAGE_LENGTH == 140
MAX_NICK_LENGTH == 20
MAX_HISTORY_LENGTH == 50
MAX_PACKAGE_LENGTH == TIMESTAMP_LENGTH + MAX_NICK_LENGTH + MAX_MESSAGE_LENGTH + 3

NULL == -1
SERVER_FD == 3

(* Bounds of the exploration.                                              *)
MaxAccepts == 2
MaxRecvs == 2
MaxTicks == 2
MaxPackets == 2
MaxTableOps == 4
MaxPoolOps == 4
MaxDrainOps == 2

----------------------------------------------------------------------------
(* Bytes and strings.                                                      *)

NUL == "NUL"
CR == "CR"
LF == "LF"
CRLF == <<CR, LF>>

Min(a, b) == IF a < b THEN a ELSE b

Rep(c, k) == [j \in 1..k |-> c]

RECURSIVE Concat(_)
Concat(ss) == IF ss = <<>> THEN <<>> ELSE Head(ss) \o Concat(Tail(ss))

IsPrefix(a, b) == Len(a) <= Len(b) /\ SubSeq(b, 1, Len(a)) = a

PACKAGE_BEGIN_MY_NAME_IS == <<"m","y"," ","n","a","m","e"," ","i","s"," ">>
PACKAGE_BEGIN_SEND == <<"s","e","n","d"," ">>
PACKAGE_OK == <<"o","k">>
PACKAGE_FOLKS == <<"f","o","l","k","s">>
PACKAGE_NEW == <<"n","e","w">>
ANONYM == <<"a","n","o","n","y","m">>

Digit(d) == <<"0","1","2","3","4","5","6","7","8","9">>[d + 1]

(* sprintf("%d", v) for v >= 0.                                            *)
RECURSIVE Decimal(_)
Decimal(v) == IF v < 10 THEN <<Digit(v)>> ELSE Decimal(v \div 10) \o <<Digit(v % 10)>>

(* sprintf("%02d", v) for 0 <= v < 100.                                    *)
TwoDigits(v) == <<Digit(v \div 10), Digit(v % 10)>>

(* strncmp(string, start, strlen(start)) == 0                              *)
starts_with(string, start) ==
  Len(string) >= Len(start) /\ SubSeq(string, 1, Len(start)) = start

(* strstr(data + begin, "\r\n"): the offset of the first CRLF at or after  *)
(* begin, searching only up to the first NUL; NULL when there is none.     *)
(* data holds the buffer's used bytes, and data[used] is the NUL that      *)
(* handle_input stores.                                                    *)
strstr(data, begin) ==
  LET nuls == {k \in begin..(Len(data) - 1) : data[k + 1] = NUL}
      stop == IF nuls = {} THEN Len(data) ELSE CHOOSE k \in nuls : \A m \in nuls : k <= m
      hits == {e \in begin..(stop - 2) : data[e + 1] = CR /\ data[e + 2] = LF}
  IN IF hits = {} THEN NULL ELSE CHOOSE e \in hits : \A m \in hits : e <= m

----------------------------------------------------------------------------
(* The clock.  A reading is a tick count t standing for the timespec       *)
(* TimeSpec(t); two ticks make a second, so that readings may differ in    *)
(* tv_nsec only, in tv_sec, or not at all.                                 *)

TimeSpec(t) == [tv_sec |-> t \div 2, tv_nsec |-> (t % 2) * 500000000]

older(a, b) ==
  a.tv_sec < b.tv_sec \/ (a.tv_sec = b.tv_sec /\ a.tv_nsec < b.tv_nsec)

(* The process ends: exit(EXIT_FAILURE).                                   *)
die(s) == [s EXCEPT !.status = "exited"]

(* clock_gettime(CLOCK_REALTIME): the clock has moved on by s.step ticks   *)
(* since the last reading (0: a reading equal to the last one).            *)
get_time(s) == [s |-> [s EXCEPT !.clock = @ + s.step], time |-> TimeSpec(s.clock + s.step)]

----------------------------------------------------------------------------
(* The buffer pool, main.c:141-156.                                        *)

(* A pool that, found empty, hands out its first block again instead of    *)
(* ending the process; C14_ExclusiveOwnership tells it from the code's.    *)
take_buffer_reusing_first_block(s) ==
  LET buffer == IF s.first_free_buffer = NULL THEN 0 ELSE s.first_free_buffer
  IN [s |-> [s EXCEPT !.first_free_buffer =
                         IF s.first_free_buffer = NULL THEN NULL
                         ELSE s.free_buffers[buffer].next,
                      !.free_buffers[buffer] = [data |-> <<>>, next |-> NULL]],
      buffer |-> buffer]

take_buffer(s) ==
  LET buffer == s.first_free_buffer
  IN IF buffer = NULL THEN [s |-> die(s), buffer |-> NULL]
     ELSE [s |-> [s EXCEPT !.first_free_buffer = s.free_buffers[buffer].next,
                           !.free_buffers[buffer] = [data |-> <<>>, next |-> NULL]],
           buffer |-> buffer]

release_buffer(s, buffer) ==
  [s EXCEPT !.free_buffers[buffer].next = s.first_free_buffer,
            !.first_free_buffer = buffer]

----------------------------------------------------------------------------
(* The chained output queue, main.c:158-191.  t is what take_buffer        *)
(* returned: when the pool was empty the process has ended.                *)

(* pending->last = pending->first = take_buffer(), main.c:166              *)
first_buffer(t, client) ==
  IF t.s.status # "running" THEN t.s
  ELSE [t.s EXCEPT !.connections.data[client].pending_to_be_sent =
                      [first |-> t.buffer, last |-> t.buffer]]

(* pending->last->next = take_buffer(); pending->last = pending->last->next *)
link_buffer(t, last, client) ==
  IF t.s.status # "running" THEN t.s
  ELSE [t.s EXCEPT !.free_buffers[last].next = t.buffer,
                   !.connections.data[client].pending_to_be_sent.last = t.buffer]

chain_buffer(s, client) ==
  link_buffer(take_buffer(s), s.connections.data[client].pending_to_be_sent.last, client)

(* An enqueue that starts every message in a fresh block, whatever room    *)
(* the tail has; C17_QueueShape tells it from the code's.                  *)
tail_always_fresh(s, client) ==
  IF s.connections.data[client].pending_to_be_sent.last = NULL
  THEN first_buffer(take_buffer(s), client)
  ELSE chain_buffer(s, client)

(* main.c:165-170: a tail block to append to.                              *)
tail_with_room(s, client) ==
  LET last == s.connections.data[client].pending_to_be_sent.last
  IN IF last = NULL THEN first_buffer(take_buffer(s), client)
     ELSE IF Len(s.free_buffers[last].data) = MAX_PACKAGE_LENGTH THEN chain_buffer(s, client)
     ELSE s

(* The while loop of send_later, main.c:172-182; store_part is its body    *)
(* from main.c:177 on.                                                     *)
RECURSIVE store(_, _, _, _)
store_part(s, client, message, stored) ==
  IF s.status # "running" THEN s
  ELSE LET last == s.connections.data[client].pending_to_be_sent.last
           used == Len(s.free_buffers[last].data)
           part_size == Min(MAX_PACKAGE_LENGTH - used, Len(message) - stored)
       IN store([s EXCEPT !.free_buffers[last].data =
                   @ \o SubSeq(message, stored + 1, stored + part_size)],
                client, message, stored + part_size)

store(s, client, message, stored) ==
  IF s.status # "running" \/ ~(stored < Len(message)) THEN s
  ELSE store_part(IF stored > 0 THEN chain_buffer(s, client) ELSE s, client, message, stored)

(* main.c:183, and the history variable: the bytes enqueued for the socket. *)
mark_pollout(s, client, message) ==
  IF s.status # "running" THEN s
  ELSE [s EXCEPT !.connections.sockets[client].events = {"POLLOUT"},
                 !.log.queued[s.connections.sockets[client].fd] = @ \o message]

send_later(s, client, message) ==
  IF s.status # "running" THEN s
  ELSE mark_pollout(store(tail_with_room(s, client), client, message, 0), client, message)

send_package(s, client, message) ==
  send_later(send_later(s, client, message), client, CRLF)

----------------------------------------------------------------------------
(* The history, main.c:198-209.  messages holds the history.length live    *)
(* entries, messages[k + 1] being history.messages[k]: index 0, the newest *)
(* entry, comes first.                                                     *)

(* main.c:203-208, g being get_time's answer.  memmove(history.messages +  *)
(* 1, history.messages, length * sizeof ...) writes the slots 1..length:   *)
(* with length = MAX_HISTORY_LENGTH the last of them lies past the array   *)
(* (over history.length and what follows it), undefined behaviour, after   *)
(* which nothing is known of the process.                                  *)
push_history(g, nick, message) ==
  IF g.s.history.length + 1 > MAX_HISTORY_LENGTH
  THEN [g.s EXCEPT !.status = "undefined"]
  ELSE [g.s EXCEPT !.history.messages =
                     <<[nick |-> nick, data |-> message, time |-> g.time]>> \o @,
                   !.history.length = @ + 1]

add_to_history(s, nick, message) == push_history(get_time(s), nick, message)

----------------------------------------------------------------------------
(* The protocol handler, main.c:223-273.                                   *)

(* close(connections.sockets[client].fd)                                   *)
close_fd(s, client) ==
  [s EXCEPT !.os.open = @ \ {s.connections.sockets[client].fd}]

(* localtime_r, for a server whose local time is UTC.                      *)
localtime_r(time) ==
  [tm_hour |-> (time.tv_sec \div 3600) % 24,
   tm_min |-> (time.tv_sec \div 60) % 60,
   tm_sec |-> time.tv_sec % 60]

(* sprintf(outgoing, "[%02d:%02d:%02d] %s: %s", ...), main.c:261-263       *)
format_time(pretty_time) ==
  <<"[">> \o TwoDigits(pretty_time.tm_hour) \o <<":">> \o TwoDigits(pretty_time.tm_min)
    \o <<":">> \o TwoDigits(pretty_time.tm_sec) \o <<"]", " ">>

format_message(m) == format_time(localtime_r(m.time)) \o m.nick \o <<":", " ">> \o m.data

(* main.c:230-235                                                          *)
package_my_name_is(s, client, package) ==
  LET nick == SubSeq(package, Len(PACKAGE_BEGIN_MY_NAME_IS) + 1, Len(package))
      length == Len(nick)
  IN IF MAX_NICK_LENGTH < length
     THEN [s |-> close_fd(s, client), rc |-> -1]
     ELSE [s |-> send_package([s EXCEPT !.connections.data[client].nick = nick],
                              client, PACKAGE_OK),
           rc |-> 0]

(* The for loop of main.c:239-241.                                         *)
RECURSIVE folks_lines(_, _, _)
folks_lines(s, client, k) ==
  IF s.status # "running" \/ ~(k < s.connections.length) THEN s
  ELSE folks_lines(send_package(s, client, s.connections.data[k].nick), client, k + 1)

(* A folks that counts the listening socket too; C4_FolksReply tells it    *)
(* from the code's.                                                        *)
package_folks_counting_listener(s, client) ==
  [s |-> folks_lines(send_package(s, client, Decimal(s.connections.length)), client, 1),
   rc |-> 0]

(* main.c:236-241                                                          *)
package_folks(s, client) ==
  [s |-> folks_lines(send_package(s, client, Decimal(s.connections.length - 1)), client, 1),
   rc |-> 0]

(* main.c:242-247.  The oversize message returns -1 without close().       *)
package_send(s, client, package) ==
  LET message == SubSeq(package, Len(PACKAGE_BEGIN_SEND) + 1, Len(package))
      length == Len(message)
  IN IF MAX_MESSAGE_LENGTH < length
     THEN [s |-> s, rc |-> -1]
     ELSE [s |-> send_package(add_to_history(s, s.connections.data[client].nick, message),
                              client, PACKAGE_OK),
           rc |-> 0]

(* The scan of main.c:250-253, from the oldest entry: the index of the     *)
(* first entry that is not older than the cursor, or -1.  With k = -1 the  *)
(* C code reads history.messages[-1].time before it tests k >= 0; whatever *)
(* it reads, the test ends the loop with k = -1.                           *)
RECURSIVE scan_history(_, _, _)
scan_history(h, last_received_message, k) ==
  IF k >= 0 /\ older(h.messages[k + 1].time, last_received_message)
  THEN scan_history(h, last_received_message, k - 1)
  ELSE k

(* The indices of history.messages that add_to_history reads or writes    *)
(* when the history holds `length` entries, main.c:203-207: memmove reads  *)
(* the slots 0..length - 1 and writes the slots 1..length, and the new     *)
(* entry goes to slot 0.                                                   *)
moved_slots(length) == (0..(length - 1)) \cup (1..length) \cup {0}

(* The indices whose .time the scan of main.c:250-253 reads: from          *)
(* length - 1 down to the index it stops at, the test of i >= 0 coming     *)
(* after the read; the loop of main.c:256-266 reads slots among these.     *)
scanned_slots(h, last_received_message) ==
  scan_history(h, last_received_message, h.length - 1)..(h.length - 1)

(* The loop of main.c:256-266: the entries k, k - 1, ..., 0 in that order. *)
(* The formatted line and its NUL must fit outgoing[MAX_PACKAGE_LENGTH]:   *)
(* a longer line is written past the array, undefined behaviour.           *)
RECURSIVE new_lines(_, _, _)
new_line(s, client, k, outgoing) ==
  IF Len(outgoing) + 1 > MAX_PACKAGE_LENGTH
  THEN [s EXCEPT !.status = "undefined"]
  ELSE new_lines(send_package(s, client, outgoing), client, k - 1)

new_lines(s, client, k) ==
  IF s.status # "running" \/ ~(k >= 0) THEN s
  ELSE new_line(s, client, k, format_message(s.history.messages[k + 1]))

(* main.c:267, g being get_time's answer.                                  *)
set_cursor(g, client) ==
  [g.s EXCEPT !.connections.data[client].last_received_message = g.time]

(* main.c:254-267, k being the index the scan stopped at.                  *)
finish_new(s, client) == IF s.status # "running" THEN s ELSE set_cursor(get_time(s), client)

reply_new(s, client, k) ==
  finish_new(new_lines(send_package(s, client, Decimal(k + 1)), client, k), client)

(* main.c:248-267                                                          *)
package_new(s, client) ==
  [s |-> reply_new(s, client,
                   scan_history(s.history, s.connections.data[client].last_received_message,
                                s.history.length - 1)),
   rc |-> 0]

process_new_package(s, client, package) ==
  IF starts_with(package, PACKAGE_BEGIN_MY_NAME_IS) THEN package_my_name_is(s, client, package)
  ELSE IF package = PACKAGE_FOLKS THEN package_folks(s, client)
  ELSE IF starts_with(package, PACKAGE_BEGIN_SEND) THEN package_send(s, client, package)
  ELSE IF package = PACKAGE_NEW THEN package_new(s, client)
  ELSE [s |-> close_fd(s, client), rc |-> -1]

----------------------------------------------------------------------------
(* The input line framer, main.c:275-321.                                  *)

(* What the history variable keeps of one call of process_new_package: s   *)
(* is the state before the call and r what the call returned.              *)
packet_record(s, r, client, package) ==
  LET fd == s.connections.sockets[client].fd
  IN [client |-> client, fd |-> fd, package |-> package, rc |-> r.rc,
      reply |-> SubSeq(r.s.log.queued[fd], Len(s.log.queued[fd]) + 1, Len(r.s.log.queued[fd])),
      answered |-> fd \in s.log.answered,
      pre |-> [connections |-> s.connections, history |-> s.history, open |-> s.os.open],
      post |-> [connections |-> r.s.connections, history |-> r.s.history,
                open |-> r.s.os.open, status |-> r.s.status]]

(* The history variable after the call: the packet's record, and the       *)
(* connections whose last `new` no `send` has followed.                    *)
log_package(s, r, client, package) ==
  LET fd == s.connections.sockets[client].fd
      answered == IF r.rc = 0 /\ package = PACKAGE_NEW THEN s.log.answered \cup {fd}
                  ELSE IF r.rc = 0 /\ starts_with(package, PACKAGE_BEGIN_SEND) THEN {}
                  ELSE s.log.answered
  IN [s |-> [r.s EXCEPT !.log.packets = Append(@, packet_record(s, r, client, package)),
                        !.log.answered = answered],
      rc |-> r.rc]

logged_package(s, client, package) ==
  log_package(s, process_new_package(s, client, package), client, package)

(* An oversize test that waits for one byte more than the buffer can hold; *)
(* C10_OversizeBoundary tells it from the code's.                          *)
too_long_one_byte_later(end_of_package, begin, used) ==
  end_of_package = NULL /\ begin = 0 /\ MAX_PACKAGE_LENGTH = used

(* The oversize test of main.c:284-285, end_of_package being strstr's      *)
(* answer.                                                                 *)
too_long(end_of_package, begin, used) ==
  end_of_package = NULL /\ begin = 0 /\ MAX_PACKAGE_LENGTH - 1 = used

(* The loop of process_new_data, main.c:282-297, from offset begin; r is   *)
(* what process_new_package returned for the packet before end_of_package. *)
RECURSIVE process_from(_, _, _)
next_package(r, client, end_of_package) ==
  IF r.s.status # "running" \/ r.rc = -1 THEN [s |-> r.s, rc |-> -1]
  ELSE process_from(r.s, client, end_of_package + 2)

(* A framer that forgets the bytes of an incomplete packet;                *)
(* C7_FramingRoundTrip tells it from the code's.                           *)
frame_dropping_rest(s, client, begin, end_of_package) ==
  LET data == s.connections.data[client].input_buffer
  IN IF too_long(end_of_package, begin, Len(data))
     THEN [s |-> [close_fd(s, client) EXCEPT !.log.too_long = TRUE], rc |-> -1]
     ELSE IF end_of_package = NULL
     THEN [s |-> [s EXCEPT !.connections.data[client].input_buffer = <<>>], rc |-> 0]
     ELSE next_package(logged_package(s, client, SubSeq(data, begin + 1, end_of_package)),
                       client, end_of_package)

frame(s, client, begin, end_of_package) ==
  LET data == s.connections.data[client].input_buffer
  IN IF too_long(end_of_package, begin, Len(data))
     THEN [s |-> [close_fd(s, client) EXCEPT !.log.too_long = TRUE], rc |-> -1]
     ELSE IF end_of_package = NULL
     THEN [s |-> [s EXCEPT !.connections.data[client].input_buffer =
                             SubSeq(data, begin + 1, Len(data))],
           rc |-> 0]
     ELSE next_package(logged_package(s, client, SubSeq(data, begin + 1, end_of_package)),
                       client, end_of_package)

process_from(s, client, begin) ==
  frame(s, client, begin, strstr(s.connections.data[client].input_buffer, begin))

process_new_data(s, client) == process_from(s, client, 0)

(* close_connection, main.c:319-320                                        *)
mark_closed(s, client) == [s EXCEPT !.connections.data[client].closed = TRUE]

(* main.c:317, d being what process_new_data returned.                     *)
after_data(d, client) ==
  IF d.s.status # "running" THEN d.s
  ELSE IF d.rc = -1 THEN mark_closed(d.s, client)
  ELSE d.s

(* recv's answer r: r.received is 0 (the peer closed), -1 (an error) or    *)
(* the number of bytes r.bytes it stored, at most sizeof(data) - used - 1. *)
handle_input(s, client, r) ==
  IF r.received = 0 \/ r.received = -1 THEN mark_closed(s, client)
  ELSE after_data(process_new_data(
                    [s EXCEPT !.connections.data[client].input_buffer = @ \o r.bytes], client),
                  client)

----------------------------------------------------------------------------
(* Draining, main.c:323-349.  w says how the kernel answers the calls of   *)
(* send: the first w.full calls take the whole block, and the next one     *)
(* returns w.sent: -1 with errno w.errno, or a byte count.                 *)
RECURSIVE drain(_, _, _)

(* A drain that leaves the interest on POLLOUT when the queue has become   *)
(* empty; C16_InterestFollowsQueue tells it from the code's.               *)
released_keeping_pollout(s, client, w, next) ==
  IF next = NULL
  THEN [s EXCEPT !.connections.data[client].pending_to_be_sent.last = NULL]
  ELSE drain(s, client, [w EXCEPT !.full = @ - 1])

(* main.c:343-348, after the head block was released.                      *)
released(s, client, w, next) ==
  IF next = NULL
  THEN [s EXCEPT !.connections.data[client].pending_to_be_sent.last = NULL,
                 !.connections.sockets[client].events = {"POLLIN"}]
  ELSE drain(s, client, [w EXCEPT !.full = @ - 1])

(* main.c:340-342, the socket having accepted `sent` bytes of the block.   *)
sent_block(s, client, w, buffer, sent) ==
  LET block == s.free_buffers[buffer]
  IN IF sent # Len(block.data) THEN [s EXCEPT !.status = "aborted"]
     ELSE released(release_buffer(
                     [s EXCEPT !.connections.data[client].pending_to_be_sent.first = block.next],
                     buffer),
                   client, w, block.next)

drain(s, client, w) ==
  LET fd == s.connections.sockets[client].fd
      buffer == s.connections.data[client].pending_to_be_sent.first
      data == s.free_buffers[buffer].data
      sent == IF w.full > 0 THEN Len(data) ELSE w.sent
  IN IF sent = -1
     THEN IF w.errno = "EAGAIN" THEN s ELSE die(s)
     ELSE sent_block([s EXCEPT !.os.sent[fd] = @ \o SubSeq(data, 1, sent)],
                     client, w, buffer, sent)

handle_output(s, client, w) ==
  IF s.connections.data[client].pending_to_be_sent.first = NULL
  THEN [s EXCEPT !.status = "aborted"]
  ELSE drain(s, client, w)

----------------------------------------------------------------------------
(* The connection table, main.c:351-390.                                   *)

(* A connection's data after memset(.., 0, ..).                            *)
zero_data ==
  [closed |-> FALSE, nick |-> <<>>, last_received_message |-> TimeSpec(0),
   pending_to_be_sent |-> [first |-> NULL, last |-> NULL], input_buffer |-> <<>>]

(* init(): the blocks chained in index order.                              *)
init_free_buffers ==
  [b \in 0..(BUFFER_POOL_SIZE - 1) |->
     [data |-> <<>>, next |-> IF b < BUFFER_POOL_SIZE - 1 THEN b + 1 ELSE NULL]]

(* prepare_server: slot 0 is the listening socket.                         *)
prepare_server ==
  [sockets |-> [k \in {0} |-> [fd |-> SERVER_FD, events |-> {"POLLIN"}, revents |-> {}]],
   data |-> [k \in {0} |-> zero_data],
   length |-> 1]

(* The kernel's side of a successful accept, and the history variable      *)
(* started for the new connection.                                         *)
opened(s, client_fd) ==
  [s EXCEPT !.os.open = @ \cup {client_fd},
            !.os.sent = (client_fd :> <<>>) @@ @,
            !.log.queued = (client_fd :> <<>>) @@ @,
            !.log.answered = @ \ {client_fd}]

(* main.c:371-377, g being get_time's answer and len connections.length.   *)
append_slot(g, len, client_fd) ==
  LET socket == [fd |-> client_fd, events |-> {"POLLIN"}, revents |-> {}]
      data == [zero_data EXCEPT !.nick = ANONYM, !.last_received_message = g.time]
      c == g.s.connections
  IN [g.s EXCEPT !.connections =
        [sockets |-> [k \in 0..len |-> IF k < len THEN c.sockets[k] ELSE socket],
         data |-> [k \in 0..len |-> IF k < len THEN c.data[k] ELSE data],
         length |-> len + 1]]

(* With the table full the slot written lies past both arrays: undefined   *)
(* behaviour.                                                              *)
new_slot(s, client_fd) ==
  IF s.connections.length >= MAX_CONNECTIONS THEN [s EXCEPT !.status = "undefined"]
  ELSE append_slot(get_time(s), s.connections.length, client_fd)

(* accept's answer client_fd: a new descriptor, or -1.                     *)
accept_new_client(s, client_fd) ==
  IF client_fd < 0 THEN die(s) ELSE new_slot(opened(s, client_fd), client_fd)

(* The slots of lo..(hi - 1) that are not marked closed, in table order:   *)
(* the values s takes in the loop of main.c:383-388 when a slot is copied. *)
RECURSIVE survivors(_, _, _)
survivors(c, lo, hi) ==
  IF lo >= hi THEN <<>>
  ELSE IF lo + 1 = hi THEN (IF c.data[lo].closed THEN <<>> ELSE <<lo>>)
  ELSE survivors(c, lo, (lo + hi) \div 2) \o survivors(c, (lo + hi) \div 2, hi)

compacted(s, keep) ==
  [s EXCEPT !.connections =
     [sockets |-> [d \in 0..(Len(keep) - 1) |-> s.connections.sockets[keep[d + 1]]],
      data |-> [d \in 0..(Len(keep) - 1) |-> s.connections.data[keep[d + 1]]],
      length |-> Len(keep)]]

clean_closed_sockets(s) == compacted(s, survivors(s.connections, 0, s.connections.length))

----------------------------------------------------------------------------
(* The body of main's for loop for slot k, main.c:412-421.  e holds the    *)
(* kernel's answers to the calls the body makes: e.fd (accept), e.recv     *)
(* (recv) and e.send (send); events is the slot's revents.                 *)

(* main.c:413-416                                                          *)
if_pollin(s, k, e, events) ==
  IF "POLLIN" \in events
  THEN IF k = 0 THEN accept_new_client(s, e.fd) ELSE handle_input(s, k, e.recv)
  ELSE s

(* main.c:416-421                                                          *)
if_pollout(s, k, e, events) ==
  IF s.status # "running" THEN s
  ELSE IF "POLLOUT" \in events
  THEN IF k = 0 THEN [s EXCEPT !.status = "aborted"] ELSE handle_output(s, k, e.send)
  ELSE IF events \cap {"POLLERR", "POLLHUP", "POLLNVAL"} # {}
  THEN [s EXCEPT !.connections.data[k].closed = TRUE]
  ELSE s

loop_body(s, k, e) ==
  if_pollout(if_pollin(s, k, e, s.connections.sockets[k].revents), k, e,
             s.connections.sockets[k].revents)

----------------------------------------------------------------------------
(* The program's state as one record, and back.                            *)

Prog ==
  [connections |-> connections, history |-> history, free_buffers |-> free_buffers,
   first_free_buffer |-> first_free_buffer, clock |-> clock, os |-> os,
   status |-> status, log |-> log, step |-> 0]

Install(s) ==
  /\ connections' = s.connections
  /\ history' = s.history
  /\ free_buffers' = s.free_buffers
  /\ first_free_buffer' = s.first_free_buffer
  /\ clock' = s.clock
  /\ os' = s.os
  /\ status' = s.status
  /\ log' = s.log

(* The state a handler starts from: the clock's pace during the handler,   *)
(* and the history variable emptied of the previous handler's records.     *)
begun(s, step, op) ==
  [s EXCEPT !.step = step,
            !.log = [@ EXCEPT !.packets = <<>>, !.too_long = FALSE,
                              !.removed = {}, !.op = op]]

Begin(step, op) == begun(Prog, step, op)

(* main.c:412: the slot's revents are read into the local `events`; the    *)
(* stored value is not read again before poll overwrites it.               *)
consumed(s, k) == [s EXCEPT !.connections.sockets[k].revents = {}]

----------------------------------------------------------------------------
(* What clients send.  A run draws its segments from one profile.          *)

Line(package) == package \o CRLF
Lines(seq) == Concat([k \in 1..Len(seq) |-> Line(seq[k])])

SEG_NEW == Line(PACKAGE_NEW)
SEG_FOLKS == Line(PACKAGE_FOLKS)
SEG_SEND_HI == Line(PACKAGE_BEGIN_SEND \o <<"h","i">>)
SEG_SEND_YO == Line(PACKAGE_BEGIN_SEND \o <<"y","o">>)
SEG_NAME_BOB == Line(PACKAGE_BEGIN_MY_NAME_IS \o <<"b","o","b">>)
SEG_GARBLE == Line(<<"g","a","r","b","l","e">>)
SEG_EMPTY == CRLF
SEG_CHAT == SEG_SEND_HI \o SEG_SEND_YO \o SEG_NEW \o SEG_NEW
SEG_NICK_MAX == Line(PACKAGE_BEGIN_MY_NAME_IS \o Rep("n", MAX_NICK_LENGTH))
SEG_NICK_OVER == Line(PACKAGE_BEGIN_MY_NAME_IS \o Rep("n", MAX_NICK_LENGTH + 1))
SEG_MSG_MAX == Line(PACKAGE_BEGIN_SEND \o Rep("m", MAX_MESSAGE_LENGTH))
SEG_MSG_MAX_NEW == SEG_MSG_MAX \o SEG_NEW
SEG_MSG_OVER == Line(PACKAGE_BEGIN_SEND \o Rep("m", MAX_MESSAGE_LENGTH + 1))
SEG_FILL == Rep("x", MAX_PACKAGE_LENGTH - 2)
SEG_FILL_LINE == Line(Rep("x", MAX_PACKAGE_LENGTH - 4))
SEG_FLOOD == Concat([j \in 1..21 |-> Line(PACKAGE_BEGIN_SEND \o <<"x">>)])

Profiles == {"chat", "limits", "oversize", "flood"}

Segments(profile) ==
  CASE profile = "chat" -> {SEG_NEW, SEG_FOLKS, SEG_NAME_BOB, SEG_CHAT}
    [] profile = "limits" ->
         {SEG_NICK_MAX, SEG_NICK_OVER, SEG_MSG_MAX_NEW, SEG_MSG_OVER, SEG_GARBLE, SEG_EMPTY}
    [] profile = "oversize" ->
         {SEG_FILL, SEG_FILL_LINE, <<"x">>, <<CR>>, <<LF>>, <<NUL>>}
    [] profile = "flood" -> {SEG_FLOOD, SEG_NEW}
    [] profile = "listener" -> {SEG_FOLKS, SEG_NAME_BOB}
    [] OTHER -> {}

(* How many connections a run accepts and how many segments it receives.   *)
(* Only the chat needs a second peer; the flood needs one more segment to  *)
(* post more than MAX_HISTORY_LENGTH messages.                             *)
Budget(profile) ==
  CASE profile \in {"chat", "listener"} -> [accepts |-> MaxAccepts, recvs |-> MaxRecvs]
    [] profile = "flood" -> [accepts |-> MaxAccepts - 1, recvs |-> MaxRecvs + 1]
    [] OTHER -> [accepts |-> MaxAccepts - 1, recvs |-> MaxRecvs]

(* recv(fd, data + used, sizeof(data) - used - 1, 0), main.c:308           *)
RecvAnswers(k) ==
  LET room == MAX_PACKAGE_LENGTH - Len(connections.data[k].input_buffer) - 1
  IN {[received |-> 0, bytes |-> <<>>], [received |-> -1, bytes |-> <<>>]}
     \cup (IF env.recvs < Budget(env.profile).recvs
           THEN {[received |-> Len(b), bytes |-> b] :
                   b \in {x \in Segments(env.profile) : Len(x) <= room}}
           ELSE {})

(* send(fd, data, used, 0) over the blocks of slot k, main.c:335           *)
RECURSIVE QueueBlocks(_, _)
QueueBlocks(fb, b) == IF b = NULL THEN <<>> ELSE <<b>> \o QueueBlocks(fb, fb[b].next)

SendAnswers(k) ==
  LET blocks == QueueBlocks(free_buffers, connections.data[k].pending_to_be_sent.first)
  IN {[full |-> Len(blocks), sent |-> -1, errno |-> "EAGAIN"]}
     \cup {[full |-> f, sent |-> -1, errno |-> err] :
             f \in 0..(Len(blocks) - 1), err \in {"EAGAIN", "EPIPE"}}
     \cup {[full |-> f, sent |-> 1, errno |-> "none"] :
             f \in {g \in 0..(Len(blocks) - 1) : Len(free_buffers[blocks[g + 1]].data) > 1}}

(* accept: the lowest descriptor that is not open.                         *)
LowestFree(open) == CHOOSE fd \in 0..(Cardinality(open)) :
                      fd \notin open /\ \A g \in 0..(fd - 1) : g \in open

Steps == IF clock < MaxTicks THEN {0, 1} ELSE {0}

(* What poll may report for slot k: nothing, the event asked for, or an    *)
(* error or hangup.  The listening socket reports pending connections and, *)
(* in the runs of the listener profile, an error condition.                *)
RevOptions(k) ==
  IF connections.sockets[k].fd = SERVER_FD
  THEN {{}} \cup (IF env.accepts < Budget(env.profile).accepts THEN {{"POLLIN"}} ELSE {})
            \cup (IF env.profile = "listener" THEN {{"POLLERR"}} ELSE {})
  ELSE IF connections.sockets[k].events = {"POLLIN"}
  THEN {{}, {"POLLIN"}, {"POLLHUP"}, {"POLLIN", "POLLHUP"}}
  ELSE {{}, {"POLLOUT"}, {"POLLERR"}}

----------------------------------------------------------------------------
(* The initial state: after init() and prepare_server(), main.c:398-404.   *)

booted ==
  [connections |-> prepare_server,
   history |-> [messages |-> <<>>, length |-> 0],
   free_buffers |-> init_free_buffers,
   first_free_buffer |-> 0,
   clock |-> 0,
   os |-> [open |-> {0, 1, 2, SERVER_FD}, sent |-> <<>>],
   status |-> "running",
   log |-> [queued |-> <<>>, answered |-> {}, packets |-> <<>>, too_long |-> FALSE,
            removed |-> {}, op |-> [name |-> "init"]],
   step |-> 0]

Start(s) ==
  /\ connections = s.connections
  /\ history = s.history
  /\ free_buffers = s.free_buffers
  /\ first_free_buffer = s.first_free_buffer
  /\ clock = s.clock
  /\ os = s.os
  /\ status = s.status
  /\ log = s.log

InitProgram ==
  /\ Start(booted)
  /\ pc = "poll" /\ i = 0 /\ n = 0

Init ==
  /\ InitProgram
  /\ env \in [profile : Profiles, accepts : {0}, recvs : {0}]
  /\ wire_in = <<>>
  /\ twin = <<>>

(* poll(connections.sockets, connections.length, -1), main.c:407, and the  *)
(* head of the for loop, main.c:411.                                       *)
Poll ==
  /\ pc = "poll" /\ status = "running"
  /\ \E rv \in [0..(connections.length - 1) -> SUBSET {"POLLIN", "POLLOUT", "POLLERR", "POLLHUP"}] :
       /\ \A k \in DOMAIN rv : rv[k] \in RevOptions(k)
       /\ \E k \in DOMAIN rv : rv[k] # {}
       /\ Install([Begin(0, [name |-> "poll"]) EXCEPT !.connections.sockets =
                     [k \in DOMAIN rv |-> [connections.sockets[k] EXCEPT !.revents = rv[k]]]])
  /\ pc' = "loop" /\ i' = 0 /\ n' = connections.length
  /\ UNCHANGED <<env, wire_in, twin>>

(* poll fails, main.c:407-409.                                             *)
PollFails ==
  /\ pc = "poll" /\ status = "running"
  /\ Install(die(Begin(0, [name |-> "poll"])))
  /\ UNCHANGED <<pc, i, n, env, wire_in, twin>>

InLoop == pc = "loop" /\ status = "running" /\ i < n

Revents == connections.sockets[i].revents

(* accept(connections.sockets[0].fd, ..), main.c:368: a new descriptor or  *)
(* -1; on a descriptor that is not the listening socket, -1.               *)
AcceptAnswers ==
  IF connections.sockets[0].fd = SERVER_FD THEN {LowestFree(os.open), -1} ELSE {-1}

(* main.c:414, and 419-420 when an error is reported with it.              *)
Accept ==
  /\ InLoop /\ "POLLIN" \in Revents /\ i = 0
  /\ \E fd \in AcceptAnswers, step \in Steps :
       Install(consumed(loop_body(Begin(step, [name |-> "accept", fd |-> fd]), i,
                                  [fd |-> fd]), i))
  /\ i' = i + 1
  /\ env' = [env EXCEPT !.accepts = @ + 1]
  /\ UNCHANGED <<pc, n, wire_in, twin>>

(* main.c:415, and 419-420 when a hangup is reported with the input.       *)
Input ==
  /\ InLoop /\ "POLLIN" \in Revents /\ i # 0
  /\ \E r \in RecvAnswers(i), step \in Steps :
       /\ Install(consumed(loop_body(Begin(step, [name |-> "input", client |-> i,
                                                   fd |-> connections.sockets[i].fd,
                                                   recv |-> r, events |-> Revents,
                                                   pending |->
                                                     connections.data[i].input_buffer
                                                       \o r.bytes]), i,
                                     [recv |-> r]), i))
       /\ env' = [env EXCEPT !.recvs = IF r.received > 0 THEN @ + 1 ELSE @]
  /\ i' = i + 1
  /\ UNCHANGED <<pc, n, wire_in, twin>>

(* main.c:416-418                                                          *)
Output ==
  /\ InLoop /\ "POLLIN" \notin Revents /\ "POLLOUT" \in Revents
  /\ \E w \in SendAnswers(i) :
       Install(consumed(loop_body(Begin(0, [name |-> "output", client |-> i,
                                            fd |-> connections.sockets[i].fd,
                                            send |-> w, table |-> connections]), i,
                                  [send |-> w]), i))
  /\ i' = i + 1
  /\ UNCHANGED <<pc, n, env, wire_in, twin>>

(* main.c:419-420                                                          *)
Error ==
  /\ InLoop /\ Revents \cap {"POLLIN", "POLLOUT"} = {} /\ Revents # {}
  /\ Install(consumed(loop_body(Begin(0, [name |-> "error", client |-> i,
                                          fd |-> connections.sockets[i].fd]), i,
                                [fd |-> -1]), i))
  /\ i' = i + 1
  /\ UNCHANGED <<pc, n, env, wire_in, twin>>

(* A slot with no event.                                                   *)
Skip ==
  /\ InLoop /\ Revents = {}
  /\ Install(loop_body(Begin(0, [name |-> "skip"]), i, [fd |-> -1]))
  /\ i' = i + 1
  /\ UNCHANGED <<pc, n, env, wire_in, twin>>

(* main.c:423; the history variable keeps the descriptors of the slots     *)
(* that the compaction removed.                                            *)
FdsOf(c) == {c.sockets[k].fd : k \in 0..(c.length - 1)}

cleaned(s, before) == [s EXCEPT !.log.removed = before \ FdsOf(s.connections)]

Clean ==
  /\ pc = "loop" /\ status = "running" /\ ~(i < n)
  /\ Install(cleaned(clean_closed_sockets(Begin(0, [name |-> "clean", table |-> connections])),
                     FdsOf(connections)))
  /\ pc' = "poll"
  /\ UNCHANGED <<i, n, env, wire_in, twin>>

Next == Poll \/ PollFails \/ Accept \/ Input \/ Output \/ Error \/ Skip \/ Clean

Spec == Init /\ [][Next]_vars

(* The same program when poll may report an error condition on the         *)
(* listening socket.                                                       *)
InitListener ==
  /\ InitProgram
  /\ env = [profile |-> "listener", accepts |-> 0, recvs |-> 0]
  /\ wire_in = <<>>
  /\ twin = <<>>

SpecListener == InitListener /\ [][Next]_vars

----------------------------------------------------------------------------
(* One client's byte stream cut into segments, against the same packets    *)
(* arriving one per segment.  The clock advances at every reading.         *)

(* One iteration of main's loop, main.c:405-424, in which poll reports     *)
(* `events` for the peer of slot 1 and nothing for the listener.           *)
polled(s, events) == [s EXCEPT !.connections.sockets[1].revents = events]

swept(s) == IF s.status # "running" THEN s ELSE clean_closed_sockets(s)

iteration(s, events, e) == swept(consumed(loop_body(polled(s, events), 1, e), 1))

(* send takes every block whole.                                           *)
TakesAll(s) ==
  [full |-> Len(QueueBlocks(s.free_buffers, s.connections.data[1].pending_to_be_sent.first)),
   sent |-> -1, errno |-> "EAGAIN"]

Writable(s) ==
  /\ s.status = "running" /\ s.connections.length = 2
  /\ s.connections.sockets[1].events = {"POLLOUT"}

Readable(s) ==
  /\ s.status = "running" /\ s.connections.length = 2
  /\ s.connections.sockets[1].events = {"POLLIN"}

drained(s) ==
  IF Writable(s)
  THEN iteration(begun(s, 1, [name |-> "output"]), {"POLLOUT"}, [send |-> TakesAll(s)])
  ELSE s

(* Every packet of the script arrives whole in a segment of its own, and   *)
(* its reply is taken by the socket before the next one arrives.           *)
RECURSIVE WholeRun(_, _)
WholeRun(s, script) ==
  IF ~Readable(s) \/ script = <<>> THEN s
  ELSE WholeRun(drained(iteration(begun(s, 1, [name |-> "input"]), {"POLLIN"},
                                  [recv |-> [received |-> Len(Line(Head(script))),
                                             bytes |-> Line(Head(script))]])),
                Tail(script))

(* The descriptor accept returns to the freshly started server.            *)
FRAME_FD == LowestFree(booted.os.open)

(* The server after it accepted one client; and after that client posted   *)
(* 17 messages of MAX_MESSAGE_LENGTH bytes and one of two bytes, whose     *)
(* lines fill all but four bytes of the pool when a `new` asks for them.   *)
Accepted == accept_new_client(begun(booted, 1, [name |-> "accept"]), FRAME_FD)

Loaded ==
  begun(WholeRun(Accepted, [k \in 1..18 |->
                              IF k < 18 THEN PACKAGE_BEGIN_SEND \o Rep("m", MAX_MESSAGE_LENGTH)
                              ELSE PACKAGE_BEGIN_SEND \o <<"h", "i">>]),
        1, [name |-> "init"])

FramePackets ==
  {PACKAGE_NEW, PACKAGE_FOLKS, PACKAGE_BEGIN_SEND \o <<"h", "i">>,
   PACKAGE_BEGIN_MY_NAME_IS \o <<"b", "o", "b">>}

Scripts == UNION {[1..len -> FramePackets] : len \in 1..MaxPackets}

Outcome(s) == [queued |-> s.log.queued[FRAME_FD], status |-> s.status]

InitFraming ==
  /\ \E s \in {Accepted, Loaded}, script \in Scripts :
       /\ Start(s)
       /\ wire_in = Lines(script)
       /\ twin = Outcome(WholeRun(s, script))
  /\ pc = "poll" /\ i = 0 /\ n = 0
  /\ env = [profile |-> "framing", accepts |-> 1, recvs |-> 0]

(* The next k bytes of the stream arrive in one segment.                   *)
FrameDeliver ==
  /\ Readable(Prog) /\ wire_in # <<>>
  /\ \E k \in 1..Min(Len(wire_in),
                     MAX_PACKAGE_LENGTH - Len(connections.data[1].input_buffer) - 1) :
       LET r == [received |-> k, bytes |-> SubSeq(wire_in, 1, k)]
       IN /\ Install(iteration(begun(Prog, 1, [name |-> "input", client |-> 1,
                                               fd |-> FRAME_FD, recv |-> r,
                                               events |-> {"POLLIN"},
                                               pending |-> connections.data[1].input_buffer
                                                             \o r.bytes]),
                               {"POLLIN"}, [recv |-> r]))
          /\ wire_in' = SubSeq(wire_in, k + 1, Len(wire_in))
  /\ UNCHANGED <<pc, i, n, env, twin>>

(* The socket takes the queued replies.                                    *)
FrameDrain ==
  /\ Writable(Prog)
  /\ Install(drained(Prog))
  /\ UNCHANGED <<pc, i, n, env, wire_in, twin>>

NextFraming == FrameDeliver \/ FrameDrain

SpecFraming == InitFraming /\ [][NextFraming]_vars

----------------------------------------------------------------------------
(* A crowded server: the table one slot short of MAX_CONNECTIONS, reached  *)
(* by accepting MAX_CONNECTIONS - 2 clients that have sent nothing yet.    *)
(* An action is one iteration of main's loop, main.c:405-424, in which     *)
(* poll reports an event for one slot.                                     *)

(* What `peers` calls of accept_new_client leave, main.c:368-377, the      *)
(* clock standing still: descriptors in order after the listener's.        *)
Crowd(peers) ==
  [booted EXCEPT
     !.connections =
        [sockets |-> [k \in 0..peers |->
                        [fd |-> SERVER_FD + k, events |-> {"POLLIN"}, revents |-> {}]],
         data |-> [k \in 0..peers |->
                     IF k = 0 THEN zero_data
                     ELSE [zero_data EXCEPT !.nick = ANONYM,
                                            !.last_received_message = TimeSpec(0)]],
         length |-> peers + 1],
     !.os = [open |-> 0..(SERVER_FD + peers),
             sent |-> [fd \in (SERVER_FD + 1)..(SERVER_FD + peers) |-> <<>>]],
     !.log.queued = [fd \in (SERVER_FD + 1)..(SERVER_FD + peers) |-> <<>>]]

reported(s, k, events) == [s EXCEPT !.connections.sockets[k].revents = events]

round(s, k, events, e) == swept(consumed(loop_body(reported(s, k, events), k, e), k))

InitTable ==
  /\ Start(Crowd(MAX_CONNECTIONS - 2))
  /\ pc = "poll" /\ i = 0 /\ n = 0
  /\ env = [profile |-> "table", accepts |-> 0, recvs |-> 0]
  /\ wire_in = <<>>
  /\ twin = <<>>

TableIdle == pc = "poll" /\ status = "running" /\ env.accepts < MaxTableOps

(* A client connects.                                                      *)
TableAccept ==
  /\ TableIdle
  /\ \E step \in Steps :
       Install(round(begun(Prog, step, [name |-> "accept", fd |-> LowestFree(os.open),
                                        length |-> connections.length,
                                        table |-> connections]),
                     0, {"POLLIN"}, [fd |-> LowestFree(os.open)]))
  /\ env' = [env EXCEPT !.accepts = @ + 1]
  /\ UNCHANGED <<pc, i, n, wire_in, twin>>

(* A peer hangs up: the first, the second or the last of the table.        *)
TableHangup ==
  /\ TableIdle
  /\ \E k \in {1, 2, connections.length - 1} :
       Install(round(begun(Prog, 0, [name |-> "error", client |-> k,
                                     fd |-> connections.sockets[k].fd]),
                     k, {"POLLHUP"}, [fd |-> -1]))
  /\ env' = [env EXCEPT !.accepts = @ + 1]
  /\ UNCHANGED <<pc, i, n, wire_in, twin>>

NextTable == TableAccept \/ TableHangup

SpecTable == InitTable /\ [][NextTable]_vars

----------------------------------------------------------------------------
(* A busy server: two clients, and a history whose lines nearly fill the   *)
(* pool when a `new` asks for them.  An action is one iteration of main's  *)
(* loop, main.c:405-424, in which poll reports an event for one peer.      *)

(* The server after the first client posted the messages of Loaded and a   *)
(* second client connected, `step` ticks after the last post.              *)
Busy(step) ==
  begun(accept_new_client(begun(Loaded, step, [name |-> "accept"]),
                          LowestFree(Loaded.os.open)),
        0, [name |-> "init"])

PoolPackets == {PACKAGE_NEW, PACKAGE_FOLKS, PACKAGE_BEGIN_SEND \o <<"h", "i">>}

(* The bytes the tail block of slot k's queue can still take, main.c:173.  *)
Room(k) ==
  LET last == connections.data[k].pending_to_be_sent.last
  IN IF last = NULL THEN 0 ELSE MAX_PACKAGE_LENGTH - Len(free_buffers[last].data)

InitPool ==
  /\ \E step \in {0, 1} : Start(Busy(step))
  /\ pc = "poll" /\ i = 0 /\ n = 0
  /\ env = [profile |-> "pool", accepts |-> 2, recvs |-> 0]
  /\ wire_in = <<>>
  /\ twin = <<>>

PoolIdle == pc = "poll" /\ status = "running" /\ env.recvs < MaxPoolOps

PoolPeers == 1..(connections.length - 1)

(* A peer's packet arrives whole, main.c:415.                              *)
PoolDeliver ==
  /\ PoolIdle
  /\ \E k \in PoolPeers, package \in PoolPackets, step \in {0, 1} :
       /\ connections.sockets[k].events = {"POLLIN"}
       /\ Install(round(begun(Prog, step,
                              [name |-> "input", client |-> k,
                               fd |-> connections.sockets[k].fd,
                               recv |-> [received |-> Len(Line(package)),
                                         bytes |-> Line(package)],
                               events |-> {"POLLIN"},
                               pending |-> connections.data[k].input_buffer
                                             \o Line(package),
                               free |-> Len(QueueBlocks(free_buffers, first_free_buffer)),
                               room |-> Room(k)]),
                        k, {"POLLIN"},
                        [recv |-> [received |-> Len(Line(package)),
                                   bytes |-> Line(package)]]))
  /\ env' = [env EXCEPT !.recvs = @ + 1]
  /\ UNCHANGED <<pc, i, n, wire_in, twin>>

(* A peer's socket is writable, main.c:416-418.                            *)
PoolDrain ==
  /\ PoolIdle
  /\ \E k \in PoolPeers :
       /\ connections.sockets[k].events = {"POLLOUT"}
       /\ \E w \in SendAnswers(k) :
            Install(round(begun(Prog, 0, [name |-> "output", client |-> k,
                                          fd |-> connections.sockets[k].fd,
                                          send |-> w, table |-> connections]),
                          k, {"POLLOUT"}, [send |-> w]))
  /\ env' = [env EXCEPT !.recvs = @ + 1]
  /\ UNCHANGED <<pc, i, n, wire_in, twin>>

(* A peer hangs up, main.c:419-420.                                        *)
PoolHangup ==
  /\ PoolIdle
  /\ \E k \in PoolPeers :
       Install(round(begun(Prog, 0, [name |-> "error", client |-> k,
                                     fd |-> connections.sockets[k].fd]),
                     k, IF connections.sockets[k].events = {"POLLIN"}
                        THEN {"POLLHUP"} ELSE {"POLLERR"},
                     [fd |-> -1]))
  /\ env' = [env EXCEPT !.recvs = @ + 1]
  /\ UNCHANGED <<pc, i, n, wire_in, twin>>

NextPool == PoolDeliver \/ PoolDrain \/ PoolHangup

SpecPool == InitPool /\ [][NextPool]_vars

(* The busy server when its peers stay connected and their sockets, once   *)
(* reported writable, take at least one byte: send never fails with an     *)
(* error, and answers EAGAIN only after it has taken a block.  The socket  *)
(* takes the whole queue, or one block, or stops inside the first or the   *)
(* second block.  A socket with replies queued is reported writable again  *)
(* and again.                                                              *)
ProgressAnswers(k) ==
  {w \in SendAnswers(k) :
     /\ w.errno # "EPIPE" /\ (w.sent = -1 => w.full >= 1)
     /\ \/ w.full <= 1
        \/ w.full >= Len(QueueBlocks(free_buffers,
                                      connections.data[k].pending_to_be_sent.first))}

(* A peer's packet arrives whole, main.c:415.                              *)
DrainDeliver ==
  /\ pc = "poll" /\ status = "running" /\ env.recvs < MaxDrainOps
  /\ \E k \in PoolPeers, package \in PoolPackets :
       /\ connections.sockets[k].events = {"POLLIN"}
       /\ Install(round(begun(Prog, 1,
                              [name |-> "input", client |-> k,
                               fd |-> connections.sockets[k].fd,
                               recv |-> [received |-> Len(Line(package)),
                                         bytes |-> Line(package)],
                               events |-> {"POLLIN"},
                               pending |-> connections.data[k].input_buffer
                                             \o Line(package)]),
                        k, {"POLLIN"},
                        [recv |-> [received |-> Len(Line(package)),
                                   bytes |-> Line(package)]]))
  /\ env' = [env EXCEPT !.recvs = @ + 1]
  /\ UNCHANGED <<pc, i, n, wire_in, twin>>

DrainWritable ==
  /\ pc = "poll" /\ status = "running"
  /\ \E k \in PoolPeers :
       /\ connections.sockets[k].events = {"POLLOUT"}
       /\ \E w \in ProgressAnswers(k) :
            Install(round(begun(Prog, 0, [name |-> "output", client |-> k,
                                          fd |-> connections.sockets[k].fd,
                                          send |-> w, table |-> connections]),
                          k, {"POLLOUT"}, [send |-> w]))
  /\ UNCHANGED <<pc, i, n, env, wire_in, twin>>

NextDrain == DrainDeliver \/ DrainWritable

SpecDrain == InitPool /\ [][NextDrain]_vars /\ WF_vars(DrainWritable)

----------------------------------------------------------------------------
(* What the properties below speak of: the packets the last handler        *)
(* decoded, and what the protocol says of a packet.                        *)

Packets == {log.packets[j] : j \in 1..Len(log.packets)}

IsMyNameIs(package) == IsPrefix(PACKAGE_BEGIN_MY_NAME_IS, package)
IsSend(package) == ~IsMyNameIs(package) /\ package # PACKAGE_FOLKS
                   /\ IsPrefix(PACKAGE_BEGIN_SEND, package)
NickOf(package) == SubSeq(package, Len(PACKAGE_BEGIN_MY_NAME_IS) + 1, Len(package))
MessageOf(package) == SubSeq(package, Len(PACKAGE_BEGIN_SEND) + 1, Len(package))
IsUnknown(package) ==
  ~IsMyNameIs(package) /\ ~IsSend(package) /\ package # PACKAGE_FOLKS /\ package # PACKAGE_NEW
OversizeNick(package) == IsMyNameIs(package) /\ Len(NickOf(package)) > MAX_NICK_LENGTH
OversizeMessage(package) == IsSend(package) /\ Len(MessageOf(package)) > MAX_MESSAGE_LENGTH
IsViolation(package) ==
  IsUnknown(package) \/ OversizeNick(package) \/ OversizeMessage(package)

(* a is strictly later than b.                                             *)
Later(a, b) == a.tv_sec > b.tv_sec \/ (a.tv_sec = b.tv_sec /\ a.tv_nsec > b.tv_nsec)

(* The entries of seq from the k-th on that are strictly later than the    *)
(* cursor, in seq's order.                                                 *)
RECURSIVE Select(_, _, _)
Select(seq, cursor, k) ==
  IF k > Len(seq) THEN <<>>
  ELSE (IF Later(seq[k].time, cursor) THEN <<seq[k]>> ELSE <<>>) \o Select(seq, cursor, k + 1)

----------------------------------------------------------------------------
(* C1, as the specification states it: whenever a decoded packet is a      *)
(* protocol violation or carries an oversize field, the server closes the  *)
(* client's socket descriptor, enqueues no reply for the packet, and       *)
(* processes no later packet of that connection.  The code does not close  *)
(* the descriptor of a `send` whose message is too long (main.c:244).      *)
C1_ViolationClosesSocket ==
  \A j \in 1..Len(log.packets) :
    IsViolation(log.packets[j].package) =>
      /\ log.packets[j].fd \notin log.packets[j].post.open
      /\ log.packets[j].reply = <<>>
      /\ j = Len(log.packets)

----------------------------------------------------------------------------
(* C2, as the specification states it: once a `new` of a client has been   *)
(* answered, the client's next `new` with no `send` processed in between   *)
(* replies with the count 0 and no history line, whatever non-decreasing   *)
(* clock readings the server gets.  The code sends again the entries whose *)
(* timestamp equals the cursor (main.c:217-221, 251-253).                  *)
C2_SecondNewIsEmpty ==
  \A p \in Packets :
    (p.package = PACKAGE_NEW /\ p.answered /\ p.post.status = "running")
      => p.reply = Line(Decimal(0))

----------------------------------------------------------------------------
(* C3, as the specification states it: the reply to `new` is a count line  *)
(* N followed by N formatted lines, exactly the history entries strictly   *)
(* later than the client's cursor, newest first, for every history state   *)
(* and every valid message length (the formatting never leaves the         *)
(* server in an undefined state).  The code sends the oldest entry first,  *)
(* includes the entries whose timestamp equals the cursor, and formats a   *)
(* line of a 20-byte nick and a 140-byte message one byte past its buffer. *)
C3_NewReply ==
  \A p \in Packets :
    p.package = PACKAGE_NEW =>
      /\ p.post.status # "undefined"
      /\ p.post.status = "running" =>
           LET qualifying ==
                 Select(p.pre.history.messages,
                        p.pre.connections.data[p.client].last_received_message, 1)
           IN p.reply = Line(Decimal(Len(qualifying)))
                          \o Concat([k \in 1..Len(qualifying) |->
                                       Line(format_message(qualifying[k]))])

----------------------------------------------------------------------------
(* C4: the reply to `folks` is a count line equal to the number of peer    *)
(* slots in the table (its length minus the listener) followed by that     *)
(* many lines, one nickname per peer slot in table order, the requester's  *)
(* own slot included.                                                      *)
C4_FolksReply ==
  \A p \in Packets :
    (p.package = PACKAGE_FOLKS /\ p.post.status = "running") =>
      p.reply = Line(Decimal(p.pre.connections.length - 1))
                  \o Concat([k \in 1..(p.pre.connections.length - 1) |->
                               Line(p.pre.connections.data[k].nick)])

(* A `folks` answered with two peers in the table, one of them renamed.    *)
C4_Witness ==
  \E p \in Packets :
    /\ p.package = PACKAGE_FOLKS /\ p.post.status = "running"
    /\ p.pre.connections.length = 3
    /\ p.pre.connections.data[1].nick # p.pre.connections.data[2].nick
    /\ Len(p.reply) > 0

----------------------------------------------------------------------------
(* C5, as the specification states it: a `my name is` with a nick of at    *)
(* most 20 bytes stores the nick and replies ok; a `send` with a message   *)
(* of at most 140 bytes appends one history entry carrying the sender's    *)
(* nick and replies ok; a longer nick or message closes the connection     *)
(* and leaves the stored nick and the history unchanged.  The code leaves  *)
(* the descriptor of the connection open after a message that is too long  *)
(* (C1), and the append is undefined with a full history (C6).             *)
C5_LengthBoundaries ==
  \A p \in Packets :
    LET before == p.pre.connections.data[p.client]
        after == p.post.connections.data[p.client]
    IN /\ (IsMyNameIs(p.package) /\ ~OversizeNick(p.package) /\ p.post.status = "running")
            => after.nick = NickOf(p.package) /\ p.reply = Line(PACKAGE_OK)
       /\ (IsSend(p.package) /\ ~OversizeMessage(p.package))
            => /\ p.post.status # "undefined"
               /\ p.post.status = "running" =>
                    /\ p.post.history.length = p.pre.history.length + 1
                    /\ p.post.history.messages[1].nick = before.nick
                    /\ p.post.history.messages[1].data = MessageOf(p.package)
                    /\ p.reply = Line(PACKAGE_OK)
       /\ (OversizeNick(p.package) \/ OversizeMessage(p.package))
            => /\ p.fd \notin p.post.open
               /\ after.nick = before.nick
               /\ p.post.history = p.pre.history

----------------------------------------------------------------------------
(* C6, as the specification states it: after any sequence of `send`        *)
(* commands the history holds at most MAX_HISTORY_LENGTH entries, the most *)
(* recent posts, newest first; a post that arrives while 50 entries are    *)
(* held drops the oldest entry and keeps the other 49 in their order.  In  *)
(* the code the post that arrives with 50 entries held moves the entries   *)
(* one slot past the array (main.c:203-204): undefined behaviour.          *)
NewestFirst(messages) ==
  \A k \in 1..(Len(messages) - 1) : ~Later(messages[k + 1].time, messages[k].time)

C6_HistoryBounded ==
  /\ history.length <= MAX_HISTORY_LENGTH
  /\ Len(history.messages) = history.length
  /\ NewestFirst(history.messages)
  /\ \A p \in Packets :
       (IsSend(p.package) /\ ~OversizeMessage(p.package)) =>
         /\ p.post.status # "undefined"
         /\ p.post.status = "running" =>
              LET kept == Min(p.pre.history.length, MAX_HISTORY_LENGTH - 1)
              IN /\ p.post.history.length = kept + 1
                 /\ p.post.history.messages[1].data = MessageOf(p.package)
                 /\ SubSeq(p.post.history.messages, 2, kept + 1)
                      = SubSeq(p.pre.history.messages, 1, kept)

----------------------------------------------------------------------------
(* C7, amended: for a sequence of valid packets of one client and any way  *)
(* of cutting its byte stream into segments, the connection stays open and *)
(* the reply bytes enqueued are, in order, a prefix of those enqueued when *)
(* each packet arrives whole in its own segment, and all of them once the  *)
(* stream has arrived, as long as the server runs.  The server may stop    *)
(* where whole packets would not stop it, and then only because the        *)
(* replies to packets of one segment, enqueued before any is drained,      *)
(* exhaust the buffer pool.                                                *)
C7_FramingRoundTrip ==
  /\ IsPrefix(log.queued[FRAME_FD], twin.queued)
  /\ status = "running" =>
       /\ connections.length = 2
       /\ ~connections.data[1].closed
       /\ FRAME_FD \in os.open
       /\ wire_in = <<>> => (log.queued[FRAME_FD] = twin.queued /\ twin.status = "running")
  /\ status # "running" => status = "exited" /\ first_free_buffer = NULL

(* A stream cut between CR and LF, whose last segment completes one packet *)
(* and carries a second one, has been answered as whole packets are.       *)
C7_Witness ==
  /\ status = "running" /\ wire_in = <<>>
  /\ log.op.name = "input" /\ log.op.recv.bytes[1] = LF
  /\ Len(log.packets) = 2
  /\ log.queued[FRAME_FD] = twin.queued

(* C7, as the specification states it: the outcome for the client, the     *)
(* reply bytes enqueued and whether the server keeps running, is the same  *)
(* for every split of the stream as for whole packets.                     *)
C7_SameOutcome ==
  (wire_in = <<>> \/ status # "running") =>
    (status = twin.status /\ log.queued[FRAME_FD] = twin.queued)

----------------------------------------------------------------------------
(* C8, as the specification states it: a peer's end of file, a recv error  *)
(* and an error or hangup event on a peer slot close the connection's      *)
(* socket and mark its slot closed, so that every slot the compaction      *)
(* removes has had its socket closed, and the process keeps running.  The  *)
(* code only marks the slot (main.c:319-320, 419-420): the descriptor is   *)
(* never closed.                                                           *)
C8_ErrorsCloseSocket ==
  /\ (log.op.name = "input" /\ log.op.recv.received <= 0)
       => /\ status = "running"
          /\ connections.data[log.op.client].closed
          /\ log.op.fd \notin os.open
  /\ log.op.name = "error"
       => /\ status = "running"
          /\ connections.data[log.op.client].closed
          /\ log.op.fd \notin os.open
  /\ log.op.name = "clean" => log.removed \cap os.open = {}

----------------------------------------------------------------------------
(* C9, as the specification states it: the bytes a connection's socket     *)
(* has accepted are at every moment a prefix of the replies enqueued for   *)
(* it, also when a write accepts fewer bytes than the head block holds,    *)
(* after which the drain stops and resumes with the rest on the next       *)
(* writable event.  The code aborts the process on such a write            *)
(* (main.c:340).                                                           *)
C9_SentIsPrefix ==
  /\ \A fd \in DOMAIN os.sent : IsPrefix(os.sent[fd], log.queued[fd])
  /\ (log.op.name = "output" /\ log.op.send.sent >= 0) => status = "running"

----------------------------------------------------------------------------
(* The pending input has no CRLF that strstr can find: none before its     *)
(* first NUL byte.                                                         *)
NoTerminator(pending) ==
  ~\E j \in 1..(Len(pending) - 1) :
      /\ pending[j] = CR /\ pending[j + 1] = LF
      /\ \A m \in 1..j : pending[m] # NUL

(* C10, amended: after a read, a connection is closed for an oversize line *)
(* exactly when its pending input is MAX_PACKAGE_LENGTH - 1 = 172 bytes    *)
(* with no CRLF before its first NUL byte; its descriptor is then closed   *)
(* and its slot marked.  A connection whose pending input is an            *)
(* unterminated line of at most 171 bytes is still open (unless a hangup   *)
(* was reported with the input) and keeps the bytes.                       *)
C10_OversizeBoundary ==
  (log.op.name = "input" /\ log.op.recv.received > 0 /\ status = "running") =>
    /\ log.too_long <=> (Len(log.op.pending) = MAX_PACKAGE_LENGTH - 1
                         /\ NoTerminator(log.op.pending))
    /\ log.too_long => /\ log.op.fd \notin os.open
                       /\ connections.data[log.op.client].closed
                       /\ log.packets = <<>>
    /\ (Len(log.op.pending) < MAX_PACKAGE_LENGTH - 1 /\ NoTerminator(log.op.pending))
         => /\ log.op.fd \in os.open
            /\ "POLLHUP" \notin log.op.events => ~connections.data[log.op.client].closed
            /\ connections.data[log.op.client].input_buffer = log.op.pending

(* One byte arrives after 171 pending bytes and the connection is closed.  *)
C10_Witness ==
  /\ log.op.name = "input" /\ log.op.recv.received = 1 /\ log.op.events = {"POLLIN"}
  /\ Len(log.op.pending) = MAX_PACKAGE_LENGTH - 1
  /\ log.too_long
  /\ log.op.fd \notin os.open

(* C10, as the specification states it: a connection whose pending input   *)
(* is an unterminated line of exactly 172 bytes is still open.             *)
C10_OpenAtFullBuffer ==
  (/\ log.op.name = "input" /\ log.op.recv.received > 0
   /\ Len(log.op.pending) = MAX_PACKAGE_LENGTH - 1
   /\ NoTerminator(log.op.pending) /\ "POLLHUP" \notin log.op.events)
    => /\ log.op.fd \in os.open
       /\ ~connections.data[log.op.client].closed

----------------------------------------------------------------------------
(* C11, as the specification states it: the table never holds more than    *)
(* MAX_CONNECTIONS slots; an accept that happens while the table length    *)
(* equals MAX_CONNECTIONS closes the new socket at once and leaves the     *)
(* table unchanged.  The code has no such test (main.c:371-377): it writes *)
(* the slot past both arrays, undefined behaviour.                         *)
C11_FullTableRejects ==
  /\ connections.length <= MAX_CONNECTIONS
  /\ (log.op.name = "accept" /\ log.op.length = MAX_CONNECTIONS)
       => /\ status = "running"
          /\ log.op.fd \notin os.open
          /\ connections = log.op.table

----------------------------------------------------------------------------
(* C12, as the specification states it: when a connection's queue is being *)
(* drained, a write failure other than EAGAIN marks that connection        *)
(* closed; the process keeps running and every other connection is as it   *)
(* was.  The code ends the process (main.c:338).                           *)
C12_SendFailureClosesConnection ==
  (log.op.name = "output" /\ log.op.send.sent = -1 /\ log.op.send.errno # "EAGAIN") =>
    /\ status = "running"
    /\ connections.length = log.op.table.length
    /\ connections.data[log.op.client].closed
    /\ \A k \in 0..(connections.length - 1) :
         k # log.op.client =>
           /\ connections.data[k] = log.op.table.data[k]
           /\ connections.sockets[k].fd = log.op.table.sockets[k].fd
           /\ connections.sockets[k].events = log.op.table.sockets[k].events

----------------------------------------------------------------------------
(* The blocks on the free list, and those in the output queue of slot k.   *)
FreeBlocks == QueueBlocks(free_buffers, first_free_buffer)
QueueOf(k) == QueueBlocks(free_buffers, connections.data[k].pending_to_be_sent.first)

RECURSIVE HeldFrom(_)
HeldFrom(k) == IF k >= connections.length THEN 0 ELSE Len(QueueOf(k)) + HeldFrom(k + 1)

(* C13, as the specification states it: at every boundary between two      *)
(* iterations of the event loop, the blocks on the free list and the       *)
(* blocks in the output queues of the connections in the table are         *)
(* BUFFER_POOL_SIZE together; the blocks of a closed connection that the   *)
(* compaction removes are back on the free list.  clean_closed_sockets     *)
(* (main.c:380-390) releases nothing: such blocks are lost.                *)
C13_PoolConservation ==
  (pc = "poll" /\ status = "running") =>
    Len(FreeBlocks) + HeldFrom(0) = BUFFER_POOL_SIZE

----------------------------------------------------------------------------
(* C14: no block is in two output queues, or in an output queue and on the *)
(* free list, at the same time; and a packet whose reply needs a block     *)
(* while the free list is empty and the connection's tail block has no     *)
(* room ends the process, the free list still empty.  The chains are       *)
(* walked for at most BUFFER_POOL_SIZE + 1 links, so that a block reached  *)
(* twice shows as a repetition.                                            *)
RECURSIVE Walk(_, _)
Walk(b, fuel) ==
  IF b = NULL \/ fuel = 0 THEN <<>> ELSE <<b>> \o Walk(free_buffers[b].next, fuel - 1)

RECURSIVE OwnedFrom(_)
OwnedFrom(k) ==
  IF k >= connections.length THEN <<>>
  ELSE Walk(connections.data[k].pending_to_be_sent.first, BUFFER_POOL_SIZE + 1)
         \o OwnedFrom(k + 1)

NoRepetition(seq) == \A a, b \in 1..Len(seq) : a # b => seq[a] # seq[b]

Starved ==
  /\ log.op.name = "input" /\ log.packets # <<>>
  /\ log.op.free = 0 /\ log.op.room = 0

C14_ExclusiveOwnership ==
  status # "undefined" =>
    /\ NoRepetition(Walk(first_free_buffer, BUFFER_POOL_SIZE + 1) \o OwnedFrom(0))
    /\ Starved => (status = "exited" /\ first_free_buffer = NULL)

(* A packet arrived for a connection with an empty queue while another     *)
(* connection held every block of the pool, and the process ended.         *)
C14_Witness ==
  /\ Starved /\ status = "exited"
  /\ connections.data[log.op.client].pending_to_be_sent.first = NULL
  /\ \E k \in 1..(connections.length - 1) :
       Len(Walk(connections.data[k].pending_to_be_sent.first, BUFFER_POOL_SIZE + 1))
         = BUFFER_POOL_SIZE

----------------------------------------------------------------------------
(* C15: after every compaction slot 0 is the listening socket and the      *)
(* slots after it are exactly the peers that were not marked closed, in    *)
(* their previous order, whatever poll reported, on slot 0 too.            *)
KeptPeers(table) ==
  LET Kept(k) == ~table.data[k].closed
  IN SelectSeq([k \in 1..(table.length - 1) |-> k], Kept)

C15_ListenerStaysFirst ==
  log.op.name = "clean" =>
    /\ connections.length = Len(KeptPeers(log.op.table)) + 1
    /\ connections.sockets[0].fd = SERVER_FD
    /\ \A d \in 1..(connections.length - 1) :
         /\ connections.sockets[d] = log.op.table.sockets[KeptPeers(log.op.table)[d]]
         /\ connections.data[d] = log.op.table.data[KeptPeers(log.op.table)[d]]

----------------------------------------------------------------------------
(* C16: whenever the running server waits in poll, every peer asks for     *)
(* POLLIN alone if its output queue is empty and for POLLOUT alone if it   *)
(* is not; so handle_input is about to be called only for a peer whose     *)
(* queue is empty, and handle_output only for a peer slot whose queue is   *)
(* not.                                                                    *)
Unsent(k) == connections.data[k].pending_to_be_sent.first # NULL

C16_InterestFollowsQueue ==
  status = "running" =>
    /\ pc = "poll" =>
         \A k \in 1..(connections.length - 1) :
           connections.sockets[k].events = IF Unsent(k) THEN {"POLLOUT"} ELSE {"POLLIN"}
    /\ (pc = "loop" /\ i < n /\ i # 0 /\ "POLLIN" \in Revents) => ~Unsent(i)
    /\ (pc = "loop" /\ i < n /\ "POLLOUT" \in Revents) => (i # 0 /\ Unsent(i))

(* The server waits with two peers: one has replies queued, the other has  *)
(* had its replies sent and is read from again.                            *)
C16_Witness ==
  /\ pc = "poll" /\ status = "running" /\ connections.length = 3
  /\ \E k \in 1..2 :
       /\ Unsent(k) /\ connections.sockets[k].events = {"POLLOUT"}
       /\ ~Unsent(3 - k) /\ connections.sockets[3 - k].events = {"POLLIN"}
       /\ os.sent[connections.sockets[3 - k].fd] # <<>>

----------------------------------------------------------------------------
(* C17: in the queue of every peer of the running server each block holds  *)
(* at most MAX_PACKAGE_LENGTH bytes, every block but the last holds        *)
(* exactly that many, `last` is the last block of the chain, and the bytes *)
(* sent followed by the bytes of the chain are the bytes enqueued, in the  *)
(* order of enqueueing: nothing was written anywhere but at the end.       *)
Blocks(k) == Walk(connections.data[k].pending_to_be_sent.first, BUFFER_POOL_SIZE + 1)

Used(b) == Len(free_buffers[b].data)

Held(k) == Concat([j \in 1..Len(Blocks(k)) |-> free_buffers[Blocks(k)[j]].data])

C17_QueueShape ==
  status = "running" =>
    \A k \in 1..(connections.length - 1) :
      /\ \A j \in 1..Len(Blocks(k)) :
           /\ Used(Blocks(k)[j]) <= MAX_PACKAGE_LENGTH
           /\ j < Len(Blocks(k)) => Used(Blocks(k)[j]) = MAX_PACKAGE_LENGTH
      /\ connections.data[k].pending_to_be_sent.last =
           IF Blocks(k) = <<>> THEN NULL ELSE Blocks(k)[Len(Blocks(k))]
      /\ os.sent[connections.sockets[k].fd] \o Held(k)
           = log.queued[connections.sockets[k].fd]

(* A drain took the first blocks of a queue and left at least two, the     *)
(* last of them partly filled.                                             *)
C17_Witness ==
  /\ status = "running" /\ log.op.name = "output" /\ log.op.send.full >= 1
  /\ log.op.client < connections.length
  /\ Len(Blocks(log.op.client)) >= 2
  /\ Used(connections.data[log.op.client].pending_to_be_sent.last) \in
       1..(MAX_PACKAGE_LENGTH - 1)

----------------------------------------------------------------------------
(* C18: when the sockets of the peers are reported writable again and      *)
(* again and the peers stay connected, a peer with replies queued comes to *)
(* have all of them written, its queue empty and its interest back on      *)
(* POLLIN; only the end of the process on an exhausted pool excuses it.    *)
Drained(k) ==
  /\ ~Unsent(k) /\ connections.sockets[k].events = {"POLLIN"}
  /\ os.sent[connections.sockets[k].fd] = log.queued[connections.sockets[k].fd]

C18_DrainLiveness ==
  \A k \in 1..2 :
    (status = "running" /\ Unsent(k)) ~> (Drained(k) \/ status = "exited")

----------------------------------------------------------------------------
(* C19: a `send` that is added to the history and a `new` that scans it    *)
(* read and write no slot of history.messages outside                      *)
(* 0..MAX_HISTORY_LENGTH - 1, whatever the history holds: 50 entries for   *)
(* the `send`, none for the `new`.                                         *)
SlotsOf(p) ==
  IF IsSend(p.package) /\ ~OversizeMessage(p.package)
  THEN moved_slots(p.pre.history.length)
  ELSE IF p.package = PACKAGE_NEW
  THEN scanned_slots(p.pre.history, p.pre.connections.data[p.client].last_received_message)
  ELSE {}

C19_HistoryInBounds ==
  \A p \in Packets : SlotsOf(p) \subseteq 0..(MAX_HISTORY_LENGTH - 1)

----------------------------------------------------------------------------
(* C20: the line formatted for a history entry whose nick has at most      *)
(* MAX_NICK_LENGTH bytes and whose message has at most MAX_MESSAGE_LENGTH  *)
(* bytes fits, with the NUL that ends it, the MAX_PACKAGE_LENGTH bytes of  *)
(* `outgoing`.                                                             *)
C20_LineFitsBuffer ==
  \A k \in 1..Len(history.messages) :
    (/\ Len(history.messages[k].nick) <= MAX_NICK_LENGTH
     /\ Len(history.messages[k].data) <= MAX_MESSAGE_LENGTH)
      => Len(format_message(history.messages[k]) \o <<NUL>>) <= MAX_PACKAGE_LENGTH

============================================================================
